---- MODULE Spec2Model ----
(***************************************************************************)
(* Zen School Food Tracker (src/app.py): the four in-memory tables, the    *)
(* two id counters, the cookie session of each browser and the request     *)
(* handlers of the Flask application.                                      *)
(*                                                                         *)
(* A Python str is a tuple of one-character strings (<<"A", "n">>), so     *)
(* that strip(), lower(), str(), int() and float() are computed and not    *)
(* assumed.  A dict is the sequence of its entries in insertion order.     *)
(* A float is a record [k, v]: k = "fin" with the integer value v,         *)
(* k = "inf" with the sign v, or k = "nan".                                *)
(***************************************************************************)
EXTENDS Integers, Sequences, FiniteSets, TLC

VARIABLES users, menu_items, sales, purchases, next_user_id, next_item_id,
          session, now, req, resp, pc, loc

vars == <<users, menu_items, sales, purchases, next_user_id, next_item_id,
          session, now, req, resp, pc, loc>>

tables == <<users, menu_items, sales, purchases, next_user_id, next_item_id>>

(***************************************************************************)
(* Bounds of the model.                                                    *)
(***************************************************************************)
MaxItems == 2
MaxPurchases == 2
MaxNow == 16
\* Clock ticks per calendar day.
DayTicks == 2

\* timedelta(days=7), the quantity limit and the [:10] of the dashboards.
WeekDays == 7
MaxQuantity == 99
RecentLimit == 10

\* The browsers, each with its own session cookie.
Clients == {"c1", "c2", "c3"}

(***************************************************************************)
(* Python values.                                                          *)
(***************************************************************************)
\* request.form.get(k) of an absent field, and an absent session key.
None == <<"None">>

S1(a) == <<a>>
S2(a, b) == <<a, b>>
S3(a, b, c) == <<a, b, c>>

Digits == <<"0", "1", "2", "3", "4", "5", "6", "7", "8", "9">>
UpperChars == <<"A", "B", "C", "D", "E", "F", "G", "H", "I", "J", "K", "L", "M",
                "N", "O", "P", "Q", "R", "S", "T", "U", "V", "W", "X", "Y", "Z">>
LowerChars == <<"a", "b", "c", "d", "e", "f", "g", "h", "i", "j", "k", "l", "m",
                "n", "o", "p", "q", "r", "s", "t", "u", "v", "w", "x", "y", "z">>

DigitSet == {Digits[i] : i \in 1..10}
DigitValue == [c \in DigitSet |-> (CHOOSE i \in 1..10 : Digits[i] = c) - 1]
IsDigit(c) == c \in DigitSet
DigitVal(c) == DigitValue[c]
IsSpace(c) == c = " "

UpperSet == {UpperChars[i] : i \in 1..26}
LowerOf == [c \in UpperSet |-> LowerChars[CHOOSE i \in 1..26 : UpperChars[i] = c]]
LowerChar(c) == IF c \in UpperSet THEN LowerOf[c] ELSE c

\* str.lower()
Lower(s) == [i \in 1..Len(s) |-> LowerChar(s[i])]

\* str.strip()
RECURSIVE LStrip(_)
LStrip(s) == IF s # <<>> /\ IsSpace(Head(s)) THEN LStrip(Tail(s)) ELSE s
RECURSIVE RStrip(_)
RStrip(s) ==
    IF s # <<>> /\ IsSpace(s[Len(s)]) THEN RStrip(SubSeq(s, 1, Len(s) - 1)) ELSE s
Strip(s) == RStrip(LStrip(s))

\* str(n) of a non-negative int: its decimal digits.
RECURSIVE Str(_)
Str(n) == IF n < 10 THEN <<Digits[n + 1]>> ELSE Str(n \div 10) \o <<Digits[(n % 10) + 1]>>

\* form.get(k, '').strip() and form.get(k, default).strip()
FormGet(v, default) == IF v = None THEN default ELSE v

(***************************************************************************)
(* int(s) and float(s).  Parse errors are the value ValueError.            *)
(***************************************************************************)
ValueError == [k |-> "ValueError", v |-> 0]
Fin(n) == [k |-> "fin", v |-> n]
Inf(sign) == [k |-> "inf", v |-> sign]
NaN == [k |-> "nan", v |-> 0]

\* digits, single underscores allowed between digits
IsDigitPart(s) ==
    /\ s # <<>>
    /\ IsDigit(s[1]) /\ IsDigit(s[Len(s)])
    /\ \A i \in 1..Len(s) : IsDigit(s[i]) \/ s[i] = "_"
    /\ \A i \in 1..(Len(s) - 1) : ~(s[i] = "_" /\ s[i + 1] = "_")

RECURSIVE DigitsValue(_, _)
DigitsValue(s, acc) ==
    IF s = <<>> THEN acc
    ELSE IF Head(s) = "_" THEN DigitsValue(Tail(s), acc)
    ELSE DigitsValue(Tail(s), 10 * acc + DigitVal(Head(s)))

HasSign(s) == s # <<>> /\ Head(s) \in {"+", "-"}
SignOf(s) == IF s # <<>> /\ Head(s) = "-" THEN -1 ELSE 1
Unsigned(s) == IF HasSign(s) THEN Tail(s) ELSE s

\* int(s): surrounding whitespace, an optional sign, decimal digits.
ParseInt(s) ==
    LET t == Strip(s)
        u == Unsigned(t)
    IN IF IsDigitPart(u) THEN Fin(SignOf(t) * DigitsValue(u, 0)) ELSE ValueError

\* float(s): surrounding whitespace, an optional sign, then "inf", "infinity"
\* or "nan" in any case, or a decimal literal (here: without fraction or
\* exponent, which the request alphabet does not contain).
ParseFloat(s) ==
    LET t == Strip(s)
        u == Lower(Unsigned(t))
    IN IF u \in {S3("i", "n", "f"), <<"i", "n", "f", "i", "n", "i", "t", "y">>}
       THEN Inf(SignOf(t))
       ELSE IF u = S3("n", "a", "n") THEN NaN
       ELSE IF IsDigitPart(u) THEN Fin(SignOf(t) * DigitsValue(u, 0))
       ELSE ValueError

\* price <= 0 on floats: every comparison with nan is False.
FloatLeqZero(f) ==
    CASE f.k = "fin" -> f.v <= 0
      [] f.k = "inf" -> f.v < 0
      [] OTHER -> FALSE

\* float * int, for an int >= 1
FloatMulInt(f, q) == IF f.k = "fin" THEN Fin(f.v * q) ELSE f

\* float + float
FloatAdd(a, b) ==
    CASE a.k = "nan" \/ b.k = "nan" -> NaN
      [] a.k = "inf" /\ b.k = "inf" -> IF a.v = b.v THEN a ELSE NaN
      [] a.k = "inf" -> a
      [] b.k = "inf" -> b
      [] OTHER -> Fin(a.v + b.v)

\* sum(...) of floats: a left fold from 0
RECURSIVE FloatSum(_, _)
FloatSum(s, acc) == IF s = <<>> THEN acc ELSE FloatSum(Tail(s), FloatAdd(acc, Head(s)))

RECURSIVE IntSum(_, _)
IntSum(s, acc) == IF s = <<>> THEN acc ELSE IntSum(Tail(s), acc + Head(s))

(***************************************************************************)
(* dict and list operations.                                               *)
(***************************************************************************)
Keys(d) == {d[i].key : i \in 1..Len(d)}
HasKey(d, k) == \E i \in 1..Len(d) : d[i].key = k
\* d[k], for a key of d
DictGet(d, k) == d[CHOOSE i \in 1..Len(d) : d[i].key = k]
\* d[k] = entry: in place when the key exists, else appended
DictAppend(d, entry) == Append(d, entry)
DictSet(d, entry) ==
    IF HasKey(d, entry.key)
    THEN [i \in 1..Len(d) |-> IF d[i].key = entry.key THEN entry ELSE d[i]]
    ELSE Append(d, entry)

\* sorted(s, key=lambda x: x['timestamp'], reverse=True): stable, descending
RECURSIVE InsertDesc(_, _)
InsertDesc(x, s) ==
    IF s = <<>> THEN <<x>>
    ELSE IF Head(s).timestamp >= x.timestamp THEN <<Head(s)>> \o InsertDesc(x, Tail(s))
    ELSE <<x>> \o s
RECURSIVE SortedDesc(_, _)
SortedDesc(s, acc) == IF s = <<>> THEN acc ELSE SortedDesc(Tail(s), InsertDesc(Head(s), acc))
\* s[:n]
Take(s, n) == SubSeq(s, 1, IF Len(s) < n THEN Len(s) ELSE n)

(***************************************************************************)
(* The clock: datetime.now() in ticks, .date() and timedelta(days=7).      *)
(***************************************************************************)
Date(t) == t \div DayTicks
WeekTicks == WeekDays * DayTicks

(***************************************************************************)
(* The request being answered (route, browser, method and form fields) and *)
(* its response: a redirect to an endpoint or a rendered template, the     *)
(* message the request flashed, and what the template is given.            *)
(***************************************************************************)
Request(route, c, method, form) ==
    [route |-> route, client |-> c, method |-> method, form |-> form]
NoForm == <<>>
LoginForm(name, role) == [name |-> name, role |-> role]
ItemForm(name, price) == [name |-> name, price |-> price]
PurchaseForm(item_id, quantity) == [item_id |-> item_id, quantity |-> quantity]

\* flash(f'message {args}', category)
NoFlash == [category |-> "none", message |-> "", args |-> <<>>]
Flash(message, args, category) == [category |-> category, message |-> message, args |-> args]
Redirect(endpoint, flash) ==
    [kind |-> "redirect", target |-> endpoint, flash |-> flash, data |-> <<>>]
Render(template, flash, data) ==
    [kind |-> "render", target |-> template, flash |-> flash, data |-> data]

\* 'user_id' in session, and users.get(session['user_id']) is a user
HasUser(c) == session[c] # None /\ HasKey(users, session[c])
CurrentUser(c) == DictGet(users, session[c])
\* the student guard without its role test
StudentGateAnyRole(c) == HasUser(c)

\* the guard at the head of the student routes (lines 78-83, 138-143, 202-207)
StudentGate(c) == HasUser(c) /\ CurrentUser(c).role = "student"
\* the guard at the head of the stall routes (lines 110-115, 158-163)
StallGate(c) == HasUser(c) /\ CurrentUser(c).role = "stall_owner"

(***************************************************************************)
(* GET /                                                       lines 23-32 *)
(***************************************************************************)
Index(c) ==
    /\ req' = Request("/", c, "GET", NoForm)
    /\ resp' = IF HasUser(c)
               THEN IF CurrentUser(c).role = "student"
                    THEN Redirect("student_dashboard", NoFlash)
                    ELSE Redirect("stall_dashboard", NoFlash)
               ELSE Render("index.html", NoFlash, <<>>)
    /\ UNCHANGED <<tables, session, now, pc, loc>>

(***************************************************************************)
(* GET/POST /login                                             lines 34-68 *)
(***************************************************************************)
\* line 37
LoginName(name_in) == Strip(FormGet(name_in, <<>>))

\* line 40
LoginValid(name, role) == name # <<>> /\ role \in {"student", "stall_owner"}

\* line 47 comparing the names as typed
LoginMatchExact(user, name, role) == user.name = name /\ user.role = role

\* line 47
LoginMatch(user, name, role) == Lower(user.name) = Lower(name) /\ user.role = role

\* lines 45-49: the first match in the dict's order, or None
LookupUser(us, name, role) ==
    IF \E i \in 1..Len(us) : LoginMatch(us[i], name, role)
    THEN us[CHOOSE i \in 1..Len(us) :
                /\ LoginMatch(us[i], name, role)
                /\ \A j \in 1..(i - 1) : ~LoginMatch(us[j], name, role)].key
    ELSE None

\* line 54 with the id taken from the size of the table
NewUserIdFromSize(n) == Str(Len(users))

\* line 54
NewUserId(n) == Str(n)

\* line 55
UserEntry(user_id, name, role) == [key |-> user_id, name |-> name, role |-> role]

\* lines 57-66
LoginResponse(name, role, created) ==
    LET flash == IF created
                 THEN Flash("Welcome to Zen School Food Tracker", <<name>>, "success")
                 ELSE Flash("Welcome back", <<name>>, "success")
    IN IF role = "student" THEN Redirect("student_dashboard", flash)
       ELSE Redirect("stall_dashboard", flash)

LoginError == Render("login.html",
                     Flash("Please enter a valid name and select a role", <<>>, "error"), <<>>)

Login(c, method, name_in, role) ==
    LET name == LoginName(name_in)
        found == LookupUser(users, name, role)
    IN /\ req' = Request("/login", c, method, LoginForm(name_in, role))
       /\ UNCHANGED <<menu_items, sales, purchases, next_item_id, now, pc, loc>>
       /\ IF method # "POST"
          THEN /\ resp' = Render("login.html", NoFlash, <<>>)
               /\ UNCHANGED <<users, next_user_id, session>>
          ELSE IF ~LoginValid(name, role)
          THEN /\ resp' = LoginError
               /\ UNCHANGED <<users, next_user_id, session>>
          ELSE IF found # None
          THEN /\ session' = [session EXCEPT ![c] = found]
               /\ resp' = LoginResponse(name, role, FALSE)
               /\ UNCHANGED <<users, next_user_id>>
          ELSE /\ users' = DictSet(users, UserEntry(NewUserId(next_user_id), name, role))
               /\ next_user_id' = next_user_id + 1
               /\ session' = [session EXCEPT ![c] = NewUserId(next_user_id)]
               /\ resp' = LoginResponse(name, role, TRUE)

(***************************************************************************)
(* GET /logout                                                 lines 70-74 *)
(***************************************************************************)
\* a logout that pops another key than 'user_id'
LogoutKeepsUserId(c) ==
    /\ req' = Request("/logout", c, "GET", NoForm)
    /\ resp' = Redirect("index", Flash("You have been logged out", <<>>, "info"))
    /\ UNCHANGED <<tables, session, now, pc, loc>>

Logout(c) ==
    /\ req' = Request("/logout", c, "GET", NoForm)
    /\ session' = [session EXCEPT ![c] = None]
    /\ resp' = Redirect("index", Flash("You have been logged out", <<>>, "info"))
    /\ UNCHANGED <<tables, now, pc, loc>>

(***************************************************************************)
(* GET /student/dashboard                                     lines 76-106 *)
(***************************************************************************)
\* line 86
UserPurchases(ps, user_id) == SelectSeq(ps, LAMBDA p : p.user_id = user_id)
\* line 90
TodayPurchases(ps, today) == SelectSeq(ps, LAMBDA p : Date(p.timestamp) = today)
\* line 95 with the boundary instant left out
WeekPurchasesAfter(ps, week_ago) == SelectSeq(ps, LAMBDA p : p.timestamp > week_ago)

\* line 95
WeekPurchases(ps, week_ago) == SelectSeq(ps, LAMBDA p : p.timestamp >= week_ago)
\* lines 91 and 96: sum(p.get('total_price', p['price']) for p in ...)
Spend(ps) == FloatSum([i \in 1..Len(ps) |-> ps[i].total_price], Fin(0))

\* lines 85-106, with the clock read at t1 (line 89) and at t2 (line 94)
StudentStats(user_id, t1, t2) ==
    LET user_purchases == UserPurchases(purchases, user_id)
        today_purchases == TodayPurchases(user_purchases, Date(t1))
        week_purchases == WeekPurchases(user_purchases, t2 - WeekTicks)
    IN [today_spend |-> Spend(today_purchases),
        weekly_spend |-> Spend(week_purchases),
        today_items |-> Len(today_purchases),
        recent_purchases |-> Take(SortedDesc(user_purchases, <<>>), RecentLimit)]

\* d: the time that passes between the two datetime.now() calls
StudentDashboard(c, d) ==
    /\ req' = Request("/student/dashboard", c, "GET", NoForm)
    /\ UNCHANGED <<tables, session, pc, loc>>
    /\ IF ~StudentGate(c)
       THEN /\ resp' = Redirect("login", NoFlash)
            /\ UNCHANGED now
       ELSE /\ now + d <= MaxNow
            /\ now' = now + d
            /\ resp' = Render("student_dashboard.html", NoFlash,
                              StudentStats(session[c], now, now + d))

(***************************************************************************)
(* GET /stall/dashboard                                      lines 108-134 *)
(***************************************************************************)
\* line 118
StallSales(ss, stall) == SelectSeq(ss, LAMBDA s : s.stall_owner = stall)

\* lines 117-134
StallStats(stall) ==
    LET stall_sales == StallSales(sales, stall)
    IN [total_sales |-> IntSum([i \in 1..Len(stall_sales) |-> stall_sales[i].quantity], 0),
        total_revenue |-> FloatSum([i \in 1..Len(stall_sales) |-> stall_sales[i].total],
                                   Fin(0)),
        recent_sales |-> Take(SortedDesc(stall_sales, <<>>), RecentLimit),
        menu_items |-> SelectSeq(menu_items, LAMBDA m : m.stall_owner = stall)]

StallDashboard(c) ==
    /\ req' = Request("/stall/dashboard", c, "GET", NoForm)
    /\ resp' = IF ~StallGate(c) THEN Redirect("login", NoFlash)
               ELSE Render("stall_dashboard.html", NoFlash, StallStats(CurrentUser(c).name))
    /\ UNCHANGED <<tables, session, now, pc, loc>>

(***************************************************************************)
(* GET /browse-menu                                          lines 136-154 *)
(***************************************************************************)
\* lines 145-152: stall name -> its items, in the menu's order
Stalls ==
    [stall \in {menu_items[i].stall_owner : i \in 1..Len(menu_items)} |->
        LET own == SelectSeq(menu_items, LAMBDA m : m.stall_owner = stall)
        IN [i \in 1..Len(own) |->
                [id |-> own[i].key, name |-> own[i].name, price |-> own[i].price]]]

BrowseMenu(c) ==
    /\ req' = Request("/browse-menu", c, "GET", NoForm)
    /\ resp' = IF ~StudentGate(c) THEN Redirect("login", NoFlash)
               ELSE Render("browse_menu.html", NoFlash, Stalls)
    /\ UNCHANGED <<tables, session, now, pc, loc>>

(***************************************************************************)
(* GET/POST /add-menu-item                                   lines 156-192 *)
(***************************************************************************)
\* lines 173-179: float(price_str), rejected when price <= 0
PriceOk(price) == price # ValueError /\ ~FloatLeqZero(price)

\* lines 182-186
MenuEntry(n, name, price, stall) ==
    [key |-> Str(n), name |-> name, price |-> price, stall_owner |-> stall]

AddMenuItem(c, method, name_in, price_in) ==
    LET name == Strip(FormGet(name_in, <<>>))
        price_str == Strip(FormGet(price_in, <<>>))
        price == ParseFloat(price_str)
    IN /\ req' = Request("/add-menu-item", c, method, ItemForm(name_in, price_in))
       /\ UNCHANGED <<users, sales, purchases, next_user_id, session, now, pc, loc>>
       /\ IF ~StallGate(c)
          THEN /\ resp' = Redirect("login", NoFlash)
               /\ UNCHANGED <<menu_items, next_item_id>>
          ELSE IF method # "POST"
          THEN /\ resp' = Render("add_menu_item.html", NoFlash, <<>>)
               /\ UNCHANGED <<menu_items, next_item_id>>
          ELSE IF name = <<>> \/ price_str = <<>>
          THEN /\ resp' = Render("add_menu_item.html",
                                 Flash("Please fill in all fields", <<>>, "error"), <<>>)
               /\ UNCHANGED <<menu_items, next_item_id>>
          ELSE IF ~PriceOk(price)
          THEN /\ resp' = Render("add_menu_item.html",
                                 Flash("Please enter a valid price", <<>>, "error"), <<>>)
               /\ UNCHANGED <<menu_items, next_item_id>>
          ELSE /\ next_item_id <= MaxItems
               /\ menu_items' = DictSet(menu_items,
                                        MenuEntry(next_item_id, name, price, CurrentUser(c).name))
               /\ next_item_id' = next_item_id + 1
               /\ resp' = Redirect("stall_dashboard",
                                   Flash("Added to your menu", <<name>>, "success"))

(***************************************************************************)
(* GET /record-sale                                          lines 194-198 *)
(***************************************************************************)
RecordSale(c) ==
    /\ req' = Request("/record-sale", c, "GET", NoForm)
    /\ resp' = Redirect("stall_dashboard",
                        Flash("Sales are now recorded automatically", <<>>, "info"))
    /\ UNCHANGED <<tables, session, now, pc, loc>>

(***************************************************************************)
(* POST /log-purchase                                        lines 200-255 *)
(***************************************************************************)
\* line 212
ItemOk(item_id) == item_id # None /\ item_id # <<>> /\ HasKey(menu_items, item_id)

\* line 210 and lines 216-222: int(quantity_str), rejected outside 1..99
ParseQuantity(quantity_in) == ParseInt(Strip(FormGet(quantity_in, S1("1"))))
QuantityOkUpTo100(quantity) ==
    quantity # ValueError /\ ~(quantity.v <= 0 \/ quantity.v > MaxQuantity + 1)
QuantityOk(quantity) ==
    quantity # ValueError /\ ~(quantity.v <= 0 \/ quantity.v > MaxQuantity)

\* line 225 without the quantity
UnitPrice(item, quantity) == item.price

\* line 225
TotalPrice(item, quantity) == FloatMulInt(item.price, quantity)

\* lines 228-237
PurchaseRecord(user_id, item, quantity, t) ==
    [user_id |-> user_id, item_id |-> item.key, item_name |-> item.name,
     stall_name |-> item.stall_owner, price |-> item.price, quantity |-> quantity,
     total_price |-> TotalPrice(item, quantity), timestamp |-> t]

\* lines 240-248 with the buyer taken for the stall
SaleRecordOfBuyer(user, item, quantity, t) ==
    [item_id |-> item.key, item_name |-> item.name, quantity |-> quantity,
     total |-> FloatMulInt(item.price, quantity), timestamp |-> t,
     stall_owner |-> user.name, buyer_name |-> user.name]

\* lines 240-248
SaleRecord(user, item, quantity, t) ==
    [item_id |-> item.key, item_name |-> item.name, quantity |-> quantity,
     total |-> TotalPrice(item, quantity), timestamp |-> t,
     stall_owner |-> item.stall_owner, buyer_name |-> user.name]

\* lines 250-253
PurchaseFlash(item, quantity) ==
    IF quantity = 1
    THEN Flash("Purchased", <<item.name, TotalPrice(item, quantity)>>, "success")
    ELSE Flash("Purchased x", <<quantity, item.name, TotalPrice(item, quantity)>>, "success")

\* d: the time that passes between the two datetime.now() calls
LogPurchase(c, item_id, quantity_in, d) ==
    LET quantity == ParseQuantity(quantity_in)
    IN /\ req' = Request("/log-purchase", c, "POST", PurchaseForm(item_id, quantity_in))
       /\ UNCHANGED <<users, menu_items, next_user_id, next_item_id, session, pc, loc>>
       /\ IF ~StudentGate(c)
          THEN /\ resp' = Redirect("login", NoFlash)
               /\ UNCHANGED <<sales, purchases, now>>
          ELSE IF ~ItemOk(item_id)
          THEN /\ resp' = Redirect("browse_menu", Flash("Invalid item selected", <<>>, "error"))
               /\ UNCHANGED <<sales, purchases, now>>
          ELSE IF ~QuantityOk(quantity)
          THEN /\ resp' = Redirect("browse_menu",
                                   Flash("Please enter a valid quantity (1-99)", <<>>, "error"))
               /\ UNCHANGED <<sales, purchases, now>>
          ELSE LET item == DictGet(menu_items, item_id)
               IN /\ Len(purchases) < MaxPurchases
                  /\ now + d <= MaxNow
                  /\ purchases' = Append(purchases,
                                         PurchaseRecord(session[c], item, quantity.v, now))
                  /\ sales' = Append(sales,
                                     SaleRecord(CurrentUser(c), item, quantity.v, now + d))
                  /\ now' = now + d
                  /\ resp' = Redirect("browse_menu", PurchaseFlash(item, quantity.v))

(***************************************************************************)
(* The wall clock moves on by d ticks while no request is being answered.  *)
(***************************************************************************)
NoRequest == Request("", "", "", NoForm)
NoResponse == Render("", NoFlash, <<>>)

Tick(d) ==
    /\ now + d <= MaxNow
    /\ now' = now + d
    /\ req' = NoRequest
    /\ resp' = NoResponse
    /\ UNCHANGED <<tables, session, pc, loc>>

(***************************************************************************)
(* POST /login run statement by statement, for requests served by         *)
(* concurrent threads: pc[c] is the next statement of browser c's request  *)
(* and loc[c] its local variables name, role and user_id.                  *)
(***************************************************************************)
\* lines 37-42
LoginBegin(c, name_in, role) ==
    /\ pc[c] = "idle"
    /\ req' = Request("/login", c, "POST", LoginForm(name_in, role))
    /\ UNCHANGED <<tables, session, now>>
    /\ IF ~LoginValid(LoginName(name_in), role)
       THEN /\ resp' = LoginError
            /\ pc' = [pc EXCEPT ![c] = "done"]
            /\ loc' = [loc EXCEPT ![c] = [name |-> LoginName(name_in), role |-> role,
                                         user_id |-> None]]
       ELSE /\ pc' = [pc EXCEPT ![c] = "lookup"]
            /\ loc' = [loc EXCEPT ![c] = [name |-> LoginName(name_in), role |-> role,
                                         user_id |-> None]]
            /\ UNCHANGED resp

\* lines 45-52
LoginLookup(c) ==
    /\ pc[c] = "lookup"
    /\ loc' = [loc EXCEPT ![c].user_id = LookupUser(users, loc[c].name, loc[c].role)]
    /\ pc' = [pc EXCEPT ![c] = IF loc'[c].user_id = None THEN "read" ELSE "finish"]
    /\ UNCHANGED <<tables, session, now, req, resp>>

\* line 54
LoginReadId(c) ==
    /\ pc[c] = "read"
    /\ loc' = [loc EXCEPT ![c].user_id = NewUserId(next_user_id)]
    /\ pc' = [pc EXCEPT ![c] = "write"]
    /\ UNCHANGED <<tables, session, now, req, resp>>

\* line 55
LoginWriteUser(c) ==
    /\ pc[c] = "write"
    /\ users' = DictSet(users, UserEntry(loc[c].user_id, loc[c].name, loc[c].role))
    /\ pc' = [pc EXCEPT ![c] = "incr"]
    /\ UNCHANGED <<menu_items, sales, purchases, next_user_id, next_item_id,
                   session, now, req, resp, loc>>

\* line 56
LoginIncrement(c) ==
    /\ pc[c] = "incr"
    /\ next_user_id' = next_user_id + 1
    /\ pc' = [pc EXCEPT ![c] = "created"]
    /\ UNCHANGED <<users, menu_items, sales, purchases, next_item_id,
                   session, now, req, resp, loc>>

\* lines 57-66
LoginFinish(c) ==
    /\ pc[c] \in {"finish", "created"}
    /\ session' = [session EXCEPT ![c] = loc[c].user_id]
    /\ resp' = LoginResponse(loc[c].name, loc[c].role, pc[c] = "created")
    /\ pc' = [pc EXCEPT ![c] = "done"]
    /\ UNCHANGED <<tables, now, req, loc>>

(***************************************************************************)
(* What the requests carry.                                                *)
(***************************************************************************)
\* the browsers of Spec and SpecRace
Browsers == {"c1", "c2"}
\* <<name, role>> of the login form; "None" is the role of a form without one
LoginForms == {<<S1("A"), "student">>, <<S2(" ", "a"), "student">>,
               <<S2(" ", "a"), "stall_owner">>,
               <<None, "student">>, <<S1(" "), "stall_owner">>, <<S1("A"), "admin">>,
               <<S1("A"), "None">>}
RaceNameInputs == {S1(" "), S1("A"), S2(" ", "a"), S1("b")}
RaceRoleInputs == {"student", "stall_owner"}
\* <<name, price>> of the add-menu-item form
FewItemForms == {<<S1("t"), S2("1", "0")>>, <<S1("t"), S3("a", "b", "c")>>}
ItemForms == {<<S1(" "), S2("1", "0")>>, <<None, S2("1", "0")>>} \cup
             {<<S1("t"), p>> : p \in {None, S1(" "), S3("a", "b", "c"), S2("-", "5"),
                                      S1("0"), S2("1", "0"), S3("n", "a", "n")}}
\* <<item_id, quantity>> of the log-purchase form
FewPurchaseForms == {<<S1("1"), None>>, <<S1("2"), S1("3")>>, <<S1("1"), S1("0")>>,
                     <<S1("9"), S1("3")>>}
PurchaseForms == {<<i, S1("3")>> : i \in {None, <<>>, S2("0", "1"), S1("3")}} \cup
                 {<<S1("1"), q>> : q \in {<<>>, S1("0"), S1("3"), S2("9", "9"),
                                          S3("1", "0", "0"), S2("-", "1"), S1("x")}} \cup
                 {<<S1("2"), None>>}
\* the time that may pass between the two datetime.now() calls of a handler
Elapsed == {0, 1}

(***************************************************************************)
(* Spec: the application after start-up (lines 13-21), every browser       *)
(* without a session cookie, the handlers run one request at a time.       *)
(***************************************************************************)
NoLocals == [name |-> <<>>, role |-> "None", user_id |-> None]

Init ==
    /\ users = <<>>
    /\ menu_items = <<>>
    /\ sales = <<>>
    /\ purchases = <<>>
    /\ next_user_id = 1
    /\ next_item_id = 1
    /\ session = [c \in Clients |-> None]
    /\ now = 0
    /\ req = NoRequest
    /\ resp = NoResponse
    /\ pc = [c \in Clients |-> "idle"]
    /\ loc = [c \in Clients |-> NoLocals]

Next ==
    \/ \E c \in Browsers : Index(c)
    \/ \E c \in Browsers : Login(c, "GET", None, "None")
    \/ \E c \in Browsers, f \in LoginForms : Login(c, "POST", f[1], f[2])
    \/ \E c \in Browsers : Logout(c)
    \/ \E c \in Browsers : StudentDashboard(c, 0)
    \/ \E c \in Browsers : StallDashboard(c)
    \/ \E c \in Browsers : BrowseMenu(c)
    \/ \E c \in Browsers : AddMenuItem(c, "GET", None, None)
    \/ \E c \in Browsers, f \in FewItemForms : AddMenuItem(c, "POST", f[1], f[2])
    \/ \E c \in Browsers : RecordSale(c)
    \/ \E c \in Browsers, f \in FewPurchaseForms : LogPurchase(c, f[1], f[2], 0)

Spec == Init /\ [][Next]_vars

(***************************************************************************)
(* SpecShop: a student and two stall owners have logged in from three      *)
(* browsers; the purchase form in all its variants.                        *)
(***************************************************************************)
InitShop ==
    /\ users = <<UserEntry(Str(1), S1("A"), "student"),
                 UserEntry(Str(2), S1("a"), "stall_owner"),
                 UserEntry(Str(3), S1("b"), "stall_owner")>>
    /\ menu_items = <<>>
    /\ sales = <<>>
    /\ purchases = <<>>
    /\ next_user_id = 4
    /\ next_item_id = 1
    /\ session = [c \in Clients |-> IF c = "c1" THEN Str(1) ELSE IF c = "c2" THEN Str(2)
                                    ELSE Str(3)]
    /\ now = 0
    /\ req = Request("/login", "c3", "POST", LoginForm(S1("b"), "stall_owner"))
    /\ resp = LoginResponse(S1("b"), "stall_owner", TRUE)
    /\ pc = [c \in Clients |-> "idle"]
    /\ loc = [c \in Clients |-> NoLocals]

NextShop ==
    \/ \E c \in Clients : StallDashboard(c)
    \/ \E c \in Clients, f \in FewItemForms : AddMenuItem(c, "POST", f[1], f[2])
    \/ \E c \in Clients, f \in PurchaseForms : LogPurchase(c, f[1], f[2], 0)

SpecShop == InitShop /\ [][NextShop]_vars

(***************************************************************************)
(* SpecMenu: from the same state, the add-menu-item form in all its        *)
(* variants.                                                               *)
(***************************************************************************)
NextMenu ==
    \/ \E c \in Clients : BrowseMenu(c)
    \/ \E c \in Clients : AddMenuItem(c, "GET", None, None)
    \/ \E c \in Clients, f \in ItemForms : AddMenuItem(c, "POST", f[1], f[2])

SpecMenu == InitShop /\ [][NextMenu]_vars

(***************************************************************************)
(* SpecClock: two students have logged in, a stall owner has put one item  *)
(* on the menu, and the clock runs.                                        *)
(***************************************************************************)
InitClock ==
    /\ users = <<UserEntry(Str(1), S1("A"), "student"),
                 UserEntry(Str(2), S1("b"), "student"),
                 UserEntry(Str(3), S1("b"), "stall_owner")>>
    /\ menu_items = <<MenuEntry(1, S1("t"), Fin(10), S1("b"))>>
    /\ sales = <<>>
    /\ purchases = <<>>
    /\ next_user_id = 4
    /\ next_item_id = 2
    /\ session = [c \in Clients |-> IF c = "c1" THEN Str(1) ELSE IF c = "c2" THEN Str(2)
                                    ELSE Str(3)]
    /\ now = 0
    /\ req = Request("/add-menu-item", "c3", "POST", ItemForm(S1("t"), S2("1", "0")))
    /\ resp = Redirect("stall_dashboard", Flash("Added to your menu", <<S1("t")>>, "success"))
    /\ pc = [c \in Clients |-> "idle"]
    /\ loc = [c \in Clients |-> NoLocals]

NextClock ==
    \/ \E c \in Browsers, d \in Elapsed : StudentDashboard(c, d)
    \/ \E c \in Browsers : LogPurchase(c, S1("1"), None, 0)
    \/ Tick(1)
    \/ Tick(WeekTicks - 1)

SpecClock == InitClock /\ [][NextClock]_vars

(***************************************************************************)
(* SpecRace: two browsers post the login form once each, and the           *)
(* statements of the two requests interleave.                              *)
(***************************************************************************)
NextRace ==
    \/ \E c \in Browsers, n \in RaceNameInputs, r \in RaceRoleInputs : LoginBegin(c, n, r)
    \/ \E c \in Browsers : LoginLookup(c)
    \/ \E c \in Browsers : LoginReadId(c)
    \/ \E c \in Browsers : LoginWriteUser(c)
    \/ \E c \in Browsers : LoginIncrement(c)
    \/ \E c \in Browsers : LoginFinish(c)

SpecRace == Init /\ [][NextRace]_vars


(***************************************************************************)
(* The claims.  req' is the request a step answers, the unprimed variables *)
(* are the state it found and the primed ones the state it left.           *)
(***************************************************************************)
Roles == {"student", "stall_owner"}
StudentRoutes == {"/student/dashboard", "/browse-menu", "/log-purchase"}
StallRoutes == {"/stall/dashboard", "/add-menu-item"}

\* a submitted field, trimmed; an absent field is empty
Trimmed(field) == IF field = None THEN <<>> ELSE Strip(field)

\* the positions of the users with lowercased name lowercase(n) and role r
Matching(us, n, r) == {i \in 1..Len(us) : Lower(us[i].name) = Lower(n) /\ us[i].role = r}

\* the role of the user a browser's session names, "" when it names none
SessionRole(c) ==
    IF \E i \in 1..Len(users) : users[i].key = session[c]
    THEN users[CHOOSE i \in 1..Len(users) : users[i].key = session[c]].role
    ELSE ""

\* s is t with one more element at the end
Appended(s, t) == Len(s) = Len(t) + 1 /\ SubSeq(s, 1, Len(t)) = t
\* s is t, possibly with more elements at the end
Extends(s, t) == Len(s) >= Len(t) /\ SubSeq(s, 1, Len(t)) = t

SilentLoginRedirect ==
    resp'.kind = "redirect" /\ resp'.target = "login" /\ resp'.flash.category = "none"

C1_Login(c, n, r) ==
    /\ IF Matching(users, n, r) # {}
       THEN /\ users' = users
            /\ next_user_id' = next_user_id
            /\ \E i \in Matching(users, n, r) : session'[c] = users[i].key
       ELSE /\ Appended(users', users)
            /\ users'[Len(users')].key \notin Keys(users)
            /\ Lower(users'[Len(users')].name) = Lower(n)
            /\ users'[Len(users')].role = r
            /\ session'[c] = users'[Len(users')].key
    /\ Cardinality(Matching(users', n, r)) = 1
    /\ \A i \in 1..Len(users') : users'[i].role # r => users'[i].key # session'[c]

\* C1: a login POST with a non-empty (trimmed) name n and a role r stores in the
\* session the id of the one existing user with lowercase(name) = lowercase(n)
\* and role r, adding no user, and otherwise appends exactly one user with a
\* fresh id and stores that id; the id is never that of a user of the other role.
C1_SameNameSameUser ==
    [][(/\ req'.route = "/login" /\ req'.method = "POST"
        /\ Trimmed(req'.form.name) # <<>>
        /\ req'.form.role \in Roles)
       => C1_Login(req'.client, Trimmed(req'.form.name), req'.form.role)]_vars

\* a student is welcomed back under a name typed in another case than the stored
\* one, while the stall owner of the same name is a second user
C1_Witness ==
    /\ req.route = "/login" /\ req.method = "POST" /\ req.form.role = "student"
    /\ resp.flash.message = "Welcome back"
    /\ Len(users) = 2
    /\ users[1].role # users[2].role
    /\ users[1].key # users[2].key
    /\ Lower(users[1].name) = Lower(users[2].name)
    /\ SessionRole(req.client) = "student"
    /\ CurrentUser(req.client).name # Trimmed(req.form.name)
    /\ Lower(CurrentUser(req.client).name) = Lower(Trimmed(req.form.name))

\* C5: a request to a student route from a session without user id, with an id
\* that names no user, or of a stall owner, and a request to a stall route from
\* a session without user id, with an id that names no user, or of a student,
\* is answered by a redirect to login without message and changes no table,
\* whatever its form carries.
C5_GatedRoutesRedirect ==
    [][(\/ req'.route \in StudentRoutes /\ SessionRole(req'.client) # "student"
        \/ req'.route \in StallRoutes /\ SessionRole(req'.client) # "stall_owner")
       => (SilentLoginRedirect /\ UNCHANGED <<tables, session>>)]_vars

\* a logged-in stall owner posted a well-formed purchase of an item on the menu
\* and was sent to login
C5_Witness ==
    /\ req.route = "/log-purchase"
    /\ SessionRole(req.client) = "stall_owner"
    /\ HasKey(menu_items, req.form.item_id)
    /\ resp.kind = "redirect" /\ resp.target = "login"
    /\ purchases = <<>>

\* the keys of dict d are the decimal numerals of numbers below the counter,
\* in strictly increasing order
IdsInOrder(d, counter) ==
    \A i \in 1..Len(d) :
       \E n \in 1..(counter - 1) :
          /\ d[i].key = Str(n)
          /\ \A j \in 1..(i - 1) : \E m \in 1..(n - 1) : d[j].key = Str(m)

\* C6: user ids and menu-item ids are each assigned to one record, in strictly
\* increasing order, each counter is greater than every id assigned from it, and
\* no user or menu-item record is ever overwritten, changed or deleted.
C6_IdsUniqueNeverReused ==
    [][/\ IdsInOrder(users', next_user_id')
       /\ IdsInOrder(menu_items', next_item_id')
       /\ Extends(users', users)
       /\ Extends(menu_items', menu_items)
       /\ next_user_id' >= next_user_id
       /\ next_item_id' >= next_item_id]_vars

C6_Witness ==
    /\ Len(users) = 2 /\ next_user_id = 3
    /\ Len(menu_items) = 2 /\ next_item_id = 3
    /\ users[1].key # users[2].key
    /\ menu_items[1].key # menu_items[2].key

\* C8: logout empties the session; a session without user id is redirected to
\* login by every gated route, which then change nothing; a login POST with an
\* empty name or a role that is no role changes neither session nor users; a
\* session changes only by a successful login POST (to a user id) or by a logout
\* (to none); and a user id held by a session names an existing user.
C8_SessionLifecycle ==
    [][/\ req'.route = "/logout" => session'[req'.client] = None
       /\ (req'.route \in StudentRoutes \cup StallRoutes /\ session[req'.client] = None)
             => (SilentLoginRedirect /\ UNCHANGED <<tables, session>>)
       /\ (/\ req'.route = "/login" /\ req'.method = "POST"
           /\ (Trimmed(req'.form.name) = <<>> \/ req'.form.role \notin Roles))
             => UNCHANGED <<session, users>>
       /\ \A c \in Clients :
             /\ session'[c] # session[c] =>
                   /\ req'.client = c
                   /\ \/ session'[c] = None /\ req'.route = "/logout"
                      \/ /\ session'[c] # None
                         /\ req'.route = "/login" /\ req'.method = "POST"
                         /\ Trimmed(req'.form.name) # <<>> /\ req'.form.role \in Roles
             /\ session'[c] # None => session'[c] \in Keys(users')]_vars

\* users exist, so a login has happened, every browser has logged out since,
\* and the gated request that followed was redirected to login
C8_Witness ==
    /\ users # <<>>
    /\ \A c \in Clients : session[c] = None
    /\ req.route \in StudentRoutes \cup StallRoutes
    /\ resp.kind = "redirect" /\ resp.target = "login"


\* the decimal numerals of the quantities 1..99
QuantityNumerals == [q \in 1..MaxQuantity |-> Str(q)]
\* the names of the stalls
StallNames == {users[i].name : i \in {j \in 1..Len(users) : users[j].role = "stall_owner"}}
MenuItemOf(item_id) == menu_items[CHOOSE i \in 1..Len(menu_items) : menu_items[i].key = item_id]
Last(s) == s[Len(s)]

C2_Purchase(c, item, q) ==
    LET total == FloatMulInt(item.price, q)
    IN /\ Appended(purchases', purchases)
       /\ Last(purchases').user_id = session[c]
       /\ Last(purchases').total_price = total
       /\ Appended(sales', sales)
       /\ Last(sales').stall_owner = item.stall_owner
       /\ Last(sales').total = total
       /\ \A stall \in StallNames :
             IF stall = item.stall_owner
             THEN /\ StallStats(stall)'.total_revenue =
                         FloatAdd(StallStats(stall).total_revenue, total)
                  /\ StallStats(stall)'.total_sales = StallStats(stall).total_sales + q
             ELSE /\ StallStats(stall)'.total_revenue = StallStats(stall).total_revenue
                  /\ StallStats(stall)'.total_sales = StallStats(stall).total_sales

\* C2: a log-purchase POST by a logged-in student for an item on the menu with
\* unit price p and a quantity q in 1..99 appends exactly one Purchase (of the
\* session's user, total_price p*q) and exactly one Sale (of the item's stall,
\* total p*q); the dashboard of that stall shows total_revenue greater by p*q and
\* total_sales greater by q, the dashboard of every other stall is unchanged.
C2_PurchaseAndSaleRecorded ==
    [][(/\ req'.route = "/log-purchase"
        /\ SessionRole(req'.client) = "student"
        /\ req'.form.item_id \in Keys(menu_items))
       => \A q \in 1..MaxQuantity :
             req'.form.quantity = QuantityNumerals[q]
             => C2_Purchase(req'.client, MenuItemOf(req'.form.item_id), q)]_vars

\* quantity 3 of an item priced 10 was bought, Purchase and Sale have total 30,
\* and the other stall had sold before
C2_Witness ==
    /\ req.route = "/log-purchase" /\ req.form.quantity = S1("3")
    /\ resp.flash.category = "success"
    /\ Len(sales) = 2 /\ Len(purchases) = 2
    /\ sales[1].stall_owner # sales[2].stall_owner
    /\ purchases[2].price = Fin(10) /\ purchases[2].total_price = Fin(30)
    /\ sales[2].quantity = 3 /\ sales[2].total = Fin(30)
    /\ StallStats(sales[2].stall_owner).total_revenue = Fin(30)
    /\ StallStats(sales[1].stall_owner).total_revenue = Fin(10)

\* quantities that are 0, negative, greater than 99, or no number
BadQuantities == {S1("0"), S2("-", "1"), S3("1", "0", "0"), S1("x"), <<>>}

\* C3: a log-purchase POST by a logged-in student whose item_id is missing or no
\* key of the menu, or whose quantity is 0, negative, greater than 99 or not a
\* number, leaves users, menu, sales, purchases and both counters unchanged and
\* redirects to browse-menu with an error message.
C3_BadPurchaseRejected ==
    [][(/\ req'.route = "/log-purchase"
        /\ SessionRole(req'.client) = "student"
        /\ \/ req'.form.item_id = None
           \/ req'.form.item_id \notin Keys(menu_items)
           \/ req'.form.quantity \in BadQuantities)
       => /\ UNCHANGED tables
          /\ resp'.kind = "redirect" /\ resp'.target = "browse_menu"
          /\ resp'.flash.category = "error"]_vars

\* quantity 100 of an item on the menu was refused after an earlier purchase
C3_Witness ==
    /\ req.route = "/log-purchase" /\ req.form.quantity = S3("1", "0", "0")
    /\ SessionRole(req.client) = "student"
    /\ HasKey(menu_items, req.form.item_id)
    /\ resp.target = "browse_menu" /\ resp.flash.category = "error"
    /\ Len(purchases) = 1 /\ Len(sales) = 1

\* the decimal numerals of strictly positive prices
PositivePrices == {Str(n) : n \in 1..MaxQuantity}

\* C4: an add-menu-item POST by a logged-in stall owner whose name is empty, or
\* whose price is empty, no number or not strictly positive, leaves the menu and
\* next_item_id unchanged and shows the form again with an error; any other
\* appends exactly one MenuItem owned by the stall owner's name.
C4_BadItemRejected ==
    [][(/\ req'.route = "/add-menu-item" /\ req'.method = "POST"
        /\ SessionRole(req'.client) = "stall_owner")
       => IF \/ Trimmed(req'.form.name) = <<>>
             \/ Trimmed(req'.form.price) \notin PositivePrices
          THEN /\ UNCHANGED <<menu_items, next_item_id>>
               /\ resp'.kind = "render" /\ resp'.target = "add_menu_item.html"
               /\ resp'.flash.category = "error"
          ELSE /\ Appended(menu_items', menu_items)
               /\ Last(menu_items').stall_owner = CurrentUser(req'.client).name
               /\ next_item_id' = next_item_id + 1]_vars

\* purchases and sales pair up position by position
Paired ==
    /\ Len(purchases) = Len(sales)
    /\ \A i \in 1..Len(purchases) :
          /\ purchases[i].item_id = sales[i].item_id
          /\ purchases[i].item_name = sales[i].item_name
          /\ purchases[i].quantity = sales[i].quantity
          /\ purchases[i].total_price = sales[i].total
          /\ purchases[i].total_price = FloatMulInt(purchases[i].price, purchases[i].quantity)
          /\ purchases[i].stall_name = sales[i].stall_owner
          /\ purchases[i].item_id \in Keys(menu_items)
          /\ \E j \in 1..Len(users) :
                users[j].key = purchases[i].user_id /\ users[j].name = sales[i].buyer_name

\* C9: after every request purchases and sales have the same length, both only
\* grow at the end, and the i-th Purchase and the i-th Sale agree on item id,
\* item name, quantity, total (= price * quantity) and stall, the item is on the
\* menu and the Sale's buyer_name is the name of the Purchase's user.
C9_PurchasesSalesPaired ==
    [][Paired' /\ Extends(purchases', purchases) /\ Extends(sales', sales)]_vars

C9_Witness ==
    /\ Len(purchases) = 2 /\ Len(sales) = 2
    /\ sales[1].item_id # sales[2].item_id
    /\ sales[1].quantity # sales[2].quantity
    /\ sales[1].buyer_name # sales[1].stall_owner

RECURSIVE SumOfTotals(_)
SumOfTotals(indices) ==
    IF indices = {} THEN 0
    ELSE LET i == CHOOSE j \in indices : TRUE
         IN purchases[i].total_price.v + SumOfTotals(indices \ {i})

C7_Dashboard(c) ==
    LET mine == {i \in 1..Len(purchases) : purchases[i].user_id = session[c]}
        today == {i \in mine : purchases[i].timestamp \div DayTicks = now \div DayTicks}
        week == {i \in mine : purchases[i].timestamp >= now' - WeekDays * DayTicks}
    IN /\ resp'.target = "student_dashboard.html"
       /\ resp'.data.today_spend = Fin(SumOfTotals(today))
       /\ resp'.data.today_items = Cardinality(today)
       /\ resp'.data.weekly_spend = Fin(SumOfTotals(week))
       /\ UNCHANGED <<tables, session>>

\* C7: for a logged-in student the dashboard's today_spend is the sum of
\* total_price over the purchases of the session's user whose timestamp has the
\* date of the clock (as read for it), today_items their number, weekly_spend the
\* sum over that user's purchases with timestamp >= the clock (as read for it)
\* minus 7 days; no other student's purchase counts and no table changes.
C7_StudentDashboardSums ==
    [][(req'.route = "/student/dashboard" /\ SessionRole(req'.client) = "student")
       => C7_Dashboard(req'.client)]_vars

\* the student's purchase is exactly 7 days old: it counts for the week and not
\* for today, and the other student's purchase counts for neither
C7_Witness ==
    /\ req.route = "/student/dashboard"
    /\ resp.target = "student_dashboard.html"
    /\ Len(purchases) = 2
    /\ purchases[1].user_id = session[req.client]
    /\ purchases[1].timestamp = now - WeekDays * DayTicks
    /\ purchases[2].user_id # session[req.client]
    /\ purchases[2].timestamp \div DayTicks = now \div DayTicks
    /\ resp.data.weekly_spend = Fin(10)
    /\ resp.data.today_spend = Fin(0)
    /\ resp.data.today_items = 0

\* both racing logins were valid and have finished
RaceDone == \A c \in Browsers : pc[c] = "done" /\ LoginValid(loc[c].name, loc[c].role)
\* the two logins were for the same (lowercased name, role) pair
SamePair ==
    /\ Lower(loc["c1"].name) = Lower(loc["c2"].name)
    /\ loc["c1"].role = loc["c2"].role
\* the users table holds the record of c's login under the id of c's session
HasRecord(c) ==
    \E i \in 1..Len(users) :
        /\ users[i].key = session[c]
        /\ users[i].name = loc[c].name
        /\ users[i].role = loc[c].role

C10_Final ==
    RaceDone =>
        /\ \A c \in Browsers : session[c] \in Keys(users)
        /\ session["c1"] = session["c2"] <=> Len(users) = 1
        /\ session["c1"] # session["c2"] <=> Len(users) = 2
        /\ IF ~SamePair
           THEN /\ next_user_id = 3
                /\ session["c1"] # session["c2"] <=> (HasRecord("c1") /\ HasRecord("c2"))
           ELSE /\ next_user_id \in {2, 3}
                /\ Cardinality(Matching(users, loc["c1"].name, loc["c1"].role)) = Len(users)

C10_ReadStep ==
    \A c \in Browsers :
        (/\ pc[c] = "read" /\ pc'[c] = "write"
         /\ \A d \in Browsers \ {c} : pc[d] \notin {"write", "incr"})
        => loc'[c].user_id \notin Keys(users)

====
